---------------------------- MODULE Spec2Model ----------------------------
(***************************************************************************)
(* A model of gather(1) (src/gather.go): the command that lists the files  *)
(* matching a glob in the directories of a set of Go packages and of their *)
(* dependencies.                                                           *)
(*                                                                         *)
(* Strings are sequences of one-character strings, so that the path and    *)
(* glob functions the program calls (path/filepath on a Unix build:        *)
(* Clean, Join, Base, Rel, Match, Glob) are computed character by          *)
(* character and component by component, as the library computes them.     *)
(* Match and Glob follow Go 1.16 and later, where a malformed pattern is   *)
(* reported whatever the name is.  The pattern alphabet of the model has   *)
(* no backslash and no range "-", so a character class is a list of        *)
(* characters, optionally negated.                                         *)
(*                                                                         *)
(* The record separator (-print0) only chooses the byte written after each *)
(* record; the output is modelled as the sequence of records.              *)
(***************************************************************************)
EXTENDS Naturals, Sequences, FiniteSets

(***************************************************************************)
(* Bound of the model: the number of import-path arguments after the       *)
(* pattern.                                                                *)
(***************************************************************************)
MaxArgs == 2

---------------------------------------------------------------------------
(* Sequence helpers *)

Last(s) == s[Len(s)]

Front(s) == SubSeq(s, 1, Len(s) - 1)

Range(s) == {s[k] : k \in 1..Len(s)}

IsPrefix(s, t) == Len(s) <= Len(t) /\ SubSeq(t, 1, Len(s)) = s

RECURSIVE Flat(_)
Flat(ss) == IF ss = <<>> THEN <<>> ELSE Head(ss) \o Flat(Tail(ss))

RECURSIVE SelectSeqBy(_, _)
SelectSeqBy(s, keep) ==
  IF s = <<>> THEN <<>>
  ELSE IF Head(s) \in keep THEN <<Head(s)>> \o SelectSeqBy(Tail(s), keep)
  ELSE SelectSeqBy(Tail(s), keep)

---------------------------------------------------------------------------
(* path/filepath, Unix *)

Separator == "/"

Dot == <<".">>

DotDot == <<".", ".">>

\* The elements of a path between separators, empty elements dropped.
RECURSIVE Comps(_, _, _)
Comps(s, cur, acc) ==
  IF s = <<>> THEN (IF cur = <<>> THEN acc ELSE Append(acc, cur))
  ELSE IF Head(s) = Separator
       THEN Comps(Tail(s), <<>>, IF cur = <<>> THEN acc ELSE Append(acc, cur))
       ELSE Comps(Tail(s), Append(cur, Head(s)), acc)

Elems(path) == Comps(path, <<>>, <<>>)

RECURSIVE JoinElems(_)
JoinElems(es) ==
  IF es = <<>> THEN <<>>
  ELSE IF Len(es) = 1 THEN es[1]
  ELSE es[1] \o <<Separator>> \o JoinElems(Tail(es))

IsRooted(path) == path # <<>> /\ Head(path) = Separator

\* Clean's pass over the elements: "." is dropped, ".." removes the element
\* before it, is dropped at the root and is kept at the front of a relative path.
RECURSIVE CleanElems(_, _, _)
CleanElems(es, rooted, stack) ==
  IF es = <<>> THEN stack
  ELSE LET e == Head(es) IN
    IF e = Dot THEN CleanElems(Tail(es), rooted, stack)
    ELSE IF e = DotDot
      THEN IF stack # <<>> /\ Last(stack) # DotDot
             THEN CleanElems(Tail(es), rooted, Front(stack))
           ELSE IF rooted THEN CleanElems(Tail(es), rooted, stack)
           ELSE CleanElems(Tail(es), rooted, Append(stack, e))
    ELSE CleanElems(Tail(es), rooted, Append(stack, e))

Clean(path) ==
  IF path = <<>> THEN Dot
  ELSE LET rooted == IsRooted(path)
           out == JoinElems(CleanElems(Elems(path), rooted, <<>>))
       IN IF rooted THEN <<Separator>> \o out
          ELSE IF out = <<>> THEN Dot ELSE out

Join(a, b) ==
  IF a # <<>> THEN Clean(a \o <<Separator>> \o b)
  ELSE IF b # <<>> THEN Clean(b)
  ELSE <<>>

Base(path) ==
  IF path = <<>> THEN Dot
  ELSE LET es == Elems(path) IN
    IF es = <<>> THEN <<Separator>> ELSE Last(es)

\* Split: the path up to and including its last separator, and the rest.
RECURSIVE LastSep(_)
LastSep(path) ==
  IF path = <<>> THEN 0
  ELSE IF Last(path) = Separator THEN Len(path)
  ELSE LastSep(Front(path))

SplitDir(path) == SubSeq(path, 1, LastSep(path))

SplitFile(path) == SubSeq(path, LastSep(path) + 1, Len(path))

RECURSIVE CommonLen(_, _)
CommonLen(xs, ys) ==
  IF xs = <<>> \/ ys = <<>> \/ Head(xs) # Head(ys) THEN 0
  ELSE 1 + CommonLen(Tail(xs), Tail(ys))

RECURSIVE Ups(_)
Ups(n) == IF n = 0 THEN <<>> ELSE <<DotDot>> \o Ups(n - 1)

\* Rel(basepath, targpath): [ok, path].  Lexical only.
Rel(basepath, targpath) ==
  LET base0 == Clean(basepath)
      targ  == Clean(targpath)
      base  == IF base0 = Dot THEN <<>> ELSE base0
      bs    == Elems(base)
      ts    == Elems(targ)
      n     == CommonLen(bs, ts)
      brest == SubSeq(bs, n + 1, Len(bs))
      trest == SubSeq(ts, n + 1, Len(ts))
  IN IF targ = base0 THEN [ok |-> TRUE, path |-> Dot]
     ELSE IF IsRooted(base) # IsRooted(targ) THEN [ok |-> FALSE, path |-> <<>>]
     ELSE IF brest # <<>> /\ Head(brest) = DotDot THEN [ok |-> FALSE, path |-> <<>>]
     ELSE IF brest # <<>>
       THEN [ok |-> TRUE, path |-> JoinElems(Ups(Len(brest)) \o trest)]
     ELSE [ok |-> TRUE, path |-> JoinElems(trest)]

---------------------------------------------------------------------------
(* filepath.Match *)

Meta == {"*", "?", "["}

hasMeta(path) == \E k \in 1..Len(path) : path[k] \in Meta

\* The index of the "]" closing the class that opens at p[1], 0 if there is none.
\* A class holds at least one member after the optional "^".
ClassFirst(p) == IF Len(p) >= 2 /\ p[2] = "^" THEN 3 ELSE 2

ClassEnd(p) ==
  LET first == ClassFirst(p)
      ends  == {k \in (first + 1)..Len(p) : p[k] = "]"}
  IN IF first > Len(p) \/ p[first] = "]" \/ ends = {} THEN 0
     ELSE CHOOSE k \in ends : \A m \in ends : k <= m

RECURSIVE WellFormed(_)
WellFormed(p) ==
  IF p = <<>> THEN TRUE
  ELSE IF Head(p) = "["
    THEN ClassEnd(p) # 0 /\ WellFormed(SubSeq(p, ClassEnd(p) + 1, Len(p)))
  ELSE WellFormed(Tail(p))

NoSep(s) == \A k \in 1..Len(s) : s[k] # Separator

RECURSIVE MatchRec(_, _)
MatchRec(p, s) ==
  IF p = <<>> THEN s = <<>>
  ELSE IF Head(p) = "*"
    THEN \E k \in 0..Len(s) :
           /\ NoSep(SubSeq(s, 1, k))
           /\ MatchRec(Tail(p), SubSeq(s, k + 1, Len(s)))
  ELSE IF Head(p) = "?"
    THEN s # <<>> /\ Head(s) # Separator /\ MatchRec(Tail(p), Tail(s))
  ELSE IF Head(p) = "["
    THEN LET first   == ClassFirst(p)
             members == Range(SubSeq(p, first, ClassEnd(p) - 1))
         IN /\ s # <<>>
            /\ (Head(s) \in members) # (first = 3)
            /\ MatchRec(SubSeq(p, ClassEnd(p) + 1, Len(p)), Tail(s))
  ELSE s # <<>> /\ Head(s) = Head(p) /\ MatchRec(Tail(p), Tail(s))

\* Match(pattern, name): [bad, matched]; bad is ErrBadPattern.
Match(pattern, name) ==
  IF ~WellFormed(pattern) THEN [bad |-> TRUE, matched |-> FALSE]
  ELSE [bad |-> FALSE, matched |-> MatchRec(pattern, name)]


---------------------------------------------------------------------------
(* Errors.  One record shape for all of them; b, p and o are the operands  *)
(* of the duplicate error's message.                                       *)

Error(kind) == [kind |-> kind, b |-> <<>>, p |-> <<>>, o |-> <<>>]

NoErr == Error("nil")

ErrBadPattern == Error("glob")

---------------------------------------------------------------------------
(* The file system the run sees: every entry by its full path, as a sorted  *)
(* directory walk lists them (Glob sorts the names it reads), and which of  *)
(* the entries are directories.  /R, the directory of package R, is gone.   *)

Files ==
  << <<"/","P">>,
     <<"/","P","/",".","h",".","c">>,
     <<"/","P","/","a",".","c">>,
     <<"/","P","/","s">>,
     <<"/","P","/","s","/","d",".","c">>,
     <<"/","Q">>,
     <<"/","Q","/","a",".","c">>,
     <<"/","Q","/","b",".","c">>,
     <<"/","S">>,
     <<"/","S","/","f",".","c">> >>

Directories ==
  { <<"/","P">>, <<"/","P","/","s">>, <<"/","Q">>, <<"/","S">> }

Lstat(path) == path \in Range(Files)

\* cleanGlobPath: the directory part of a pattern, ready to be read.
cleanGlobPath(path) ==
  IF path = <<>> THEN Dot
  ELSE IF path = <<Separator>> THEN path
  ELSE Front(path)

\* The names in dir, sorted.
RECURSIVE NamesIn(_, _)
NamesIn(fs, dir) ==
  IF fs = <<>> THEN <<>>
  ELSE IF cleanGlobPath(SplitDir(Head(fs))) = dir
    THEN <<SplitFile(Head(fs))>> \o NamesIn(Tail(fs), dir)
  ELSE NamesIn(Tail(fs), dir)

\* glob(dir, pattern): the entries of dir whose name matches; nothing when dir
\* is no directory.  The pattern has been validated by Glob.
RECURSIVE globNames(_, _, _)
globNames(dir, pattern, names) ==
  IF names = <<>> THEN <<>>
  ELSE IF Match(pattern, Head(names)).matched
    THEN <<Join(dir, Head(names))>> \o globNames(dir, pattern, Tail(names))
  ELSE globNames(dir, pattern, Tail(names))

globDir(dir, pattern) ==
  IF dir \notin Directories THEN <<>>
  ELSE globNames(dir, pattern, NamesIn(Files, dir))

RECURSIVE globEach(_, _)
globEach(dirs, pattern) ==
  IF dirs = <<>> THEN <<>>
  ELSE globDir(Head(dirs), pattern) \o globEach(Tail(dirs), pattern)

RECURSIVE globRec(_)
globRec(pattern) ==
  IF ~hasMeta(pattern) THEN (IF Lstat(pattern) THEN <<pattern>> ELSE <<>>)
  ELSE LET dir  == cleanGlobPath(SplitDir(pattern))
           file == SplitFile(pattern)
       IN IF ~hasMeta(dir) THEN globDir(dir, file)
          ELSE globEach(globRec(dir), file)

\* filepath.Glob: [err, paths].  I/O errors are ignored; the only error is a
\* malformed pattern.
Glob(pattern) ==
  IF Match(pattern, <<>>).bad THEN [err |-> ErrBadPattern, paths |-> <<>>]
  ELSE [err |-> NoErr, paths |-> globRec(pattern)]

---------------------------------------------------------------------------
(* The package metadata provider (goutil, gocli).  A package is named by   *)
(* its import path; Dir, Imports and Goroot are the fields of its          *)
(* descriptor.  P imports Q and S, Q imports R; S is a standard-library    *)
(* package.                                                                *)

ImportPaths == {"P", "Q", "R", "S"}

AllPackages == <<"P", "Q", "R", "S">>

Dir ==
  [ip \in ImportPaths |->
     CASE ip = "P" -> <<"/","P">>
       [] ip = "Q" -> <<"/","Q">>
       [] ip = "R" -> <<"/","R">>
       [] ip = "S" -> <<"/","S">>]

Imports ==
  [ip \in ImportPaths |->
     CASE ip = "P" -> <<"Q", "S">>
       [] ip = "Q" -> <<"R">>
       [] ip = "R" -> <<>>
       [] ip = "S" -> <<>>]

Goroot == [ip \in ImportPaths |-> ip = "S"]

\* Packages.Uniq: duplicates removed by import path, first occurrence kept.
RECURSIVE UniqFrom(_, _)
UniqFrom(ps, acc) ==
  IF ps = <<>> THEN acc
  ELSE IF Head(ps) \in Range(acc) THEN UniqFrom(Tail(ps), acc)
  ELSE UniqFrom(Tail(ps), Append(acc, Head(ps)))

Uniq(ps) == UniqFrom(ps, <<>>)

\* Packages.NoStdlib: the packages that are not of the standard library.
NoStdlib(ps) == SelectSeqBy(ps, {ip \in ImportPaths : ~Goroot[ip]})

\* The imports of a package, and theirs, depth first, each once.
RECURSIVE Walk(_, _)
Walk(todo, acc) ==
  IF todo = <<>> THEN acc
  ELSE IF Head(todo) \in Range(acc) THEN Walk(Tail(todo), acc)
  ELSE Walk(Imports[Head(todo)] \o Tail(todo), Append(acc, Head(todo)))

\* Package.ImportDeps: [err, ps], the transitive dependencies of p.  It fails
\* when one of them cannot be loaded.
ImportDeps(p, gone) ==
  LET ds == Walk(Imports[p], <<>>)
  IN IF Range(ds) \cap gone # {} THEN [err |-> Error("closure"), ps |-> <<>>]
     ELSE [err |-> NoErr, ps |-> ds]

\* gocli.Import of one argument: [err, ps].  "..." is every package that can
\* be loaded, "X" is no package.
Resolve(arg, gone) ==
  IF arg = "..." THEN [err |-> NoErr, ps |-> SelectSeqBy(AllPackages, ImportPaths \ gone)]
  ELSE IF arg \in ImportPaths \ gone THEN [err |-> NoErr, ps |-> <<arg>>]
  ELSE [err |-> Error("resolution"), ps |-> <<>>]

\* gocli.Import: one result per argument; no argument is the package of the
\* current directory, P.
Import(imports, gone) ==
  IF imports = <<>> THEN <<Resolve("P", gone)>>
  ELSE [k \in 1..Len(imports) |-> Resolve(imports[k], gone)]

\* gocli.FirstError
FirstError(rs) ==
  LET bad == {k \in 1..Len(rs) : rs[k].err # NoErr}
  IN IF bad = {} THEN NoErr
     ELSE rs[CHOOSE k \in bad : \A m \in bad : k <= m].err

\* gocli.Flatten: the lists joined, duplicates removed.
Flatten(rs) == Uniq(Flat([k \in 1..Len(rs) |-> rs[k].ps]))

---------------------------------------------------------------------------
(* The functions of gather.go.  Each returns a record holding its error    *)
(* and its result, as the Go function returns the pair.                    *)

\* importArgs(tags, imports): the packages the arguments name.
importArgs(imports, gone) ==
  LET rs == Import(imports, gone)
      e  == FirstError(rs)
  IN IF e # NoErr THEN [err |-> e, ps |-> <<>>]
     ELSE [err |-> NoErr, ps |-> Flatten(rs)]

\* The loop of importDeps: the dependencies of every package, appended; the
\* first failing lookup ends it.
RECURSIVE depsLoop(_, _, _)
depsLoop(ps, gone, deps) ==
  IF ps = <<>> THEN [err |-> NoErr, ps |-> deps]
  ELSE LET r == ImportDeps(Head(ps), gone)
       IN IF r.err # NoErr THEN [err |-> r.err, ps |-> <<>>]
          ELSE depsLoop(Tail(ps), gone, deps \o r.ps)

\* Variant of importDeps that returns the dependencies without the packages
\* they were asked of.
importDepsOnly(ps, gone) ==
  LET r == depsLoop(ps, gone, <<>>)
  IN IF r.err # NoErr THEN [err |-> r.err, ps |-> <<>>]
     ELSE [err |-> NoErr, ps |-> Uniq(r.ps)]

\* Variant of importDeps that leaves the duplicates in.
importDepsNoUniq(ps, gone) ==
  LET r == depsLoop(ps, gone, <<>>)
  IN IF r.err # NoErr THEN [err |-> r.err, ps |-> <<>>]
     ELSE [err |-> NoErr, ps |-> ps \o r.ps]

importDeps(ps, gone) ==
  LET r == depsLoop(ps, gone, <<>>)
  IN IF r.err # NoErr THEN [err |-> r.err, ps |-> <<>>]
     ELSE [err |-> NoErr, ps |-> Uniq(ps \o r.ps)]

match(dir, pattern) == Glob(Join(dir, pattern))

RECURSIVE filterLoop(_, _, _)
filterLoop(paths, excl, out) ==
  IF paths = <<>> THEN [err |-> NoErr, paths |-> out]
  ELSE LET r == Match(excl, Base(Head(paths)))
       IN IF r.bad THEN [err |-> ErrBadPattern, paths |-> <<>>]
          ELSE filterLoop(Tail(paths), excl,
                          IF r.matched THEN out ELSE Append(out, Head(paths)))

\* Variant of filter that keeps the paths it should skip.
RECURSIVE keepLoop(_, _, _)
keepLoop(paths, excl, out) ==
  IF paths = <<>> THEN [err |-> NoErr, paths |-> out]
  ELSE LET r == Match(excl, Base(Head(paths)))
       IN IF r.bad THEN [err |-> ErrBadPattern, paths |-> <<>>]
          ELSE keepLoop(Tail(paths), excl,
                        IF r.matched THEN Append(out, Head(paths)) ELSE out)

filterKeepsMatches(paths, excl) ==
  IF excl = <<>> THEN [err |-> NoErr, paths |-> paths]
  ELSE keepLoop(paths, excl, <<>>)

filter(paths, excl) ==
  IF excl = <<>> THEN [err |-> NoErr, paths |-> paths]
  ELSE filterLoop(paths, excl, <<>>)

\* A pathFormatter: identity, or mkRel(to).
identity == [kind |-> "identity", to |-> <<>>]

mkRel(to) == [kind |-> "rel", to |-> to]

Call(f, s) ==
  IF f.kind = "identity" THEN [err |-> NoErr, path |-> s]
  ELSE LET r == Rel(f.to, s)
       IN IF r.ok THEN [err |-> NoErr, path |-> r.path]
          ELSE [err |-> Error("rel"), path |-> <<>>]

\* Getwd fails when the process has no current directory (wd is empty).
mkFormatter(rel, wd) ==
  IF rel = <<>> THEN [err |-> NoErr, f |-> identity]
  ELSE IF Clean(rel) = Dot
    THEN IF wd = <<>> THEN [err |-> Error("getwd"), f |-> identity]
         ELSE [err |-> NoErr, f |-> mkRel(wd)]
  ELSE [err |-> NoErr, f |-> mkRel(Clean(rel))]

RECURSIVE formatLoop(_, _, _)
formatLoop(paths, f, out) ==
  IF paths = <<>> THEN [err |-> NoErr, paths |-> out]
  ELSE LET r == Call(f, Head(paths))
       IN IF r.err # NoErr THEN [err |-> r.err, paths |-> <<>>]
          ELSE formatLoop(Tail(paths), f, Append(out, r.path))

format(paths, f) == formatLoop(paths, f, <<>>)

\* dupcheck: a map from base name to path.
DupError(b, p, o) == [kind |-> "dup", b |-> b, p |-> p, o |-> o]

\* Variant of push that records the new path over the old one before failing.
pushOverwrites(d, p) ==
  LET b == Base(p)
  IN IF b \in DOMAIN d
       THEN [err |-> DupError(b, p, d[b]), d |-> [d EXCEPT ![b] = p]]
     ELSE [err |-> NoErr,
           d |-> [x \in DOMAIN d \cup {b} |-> IF x = b THEN p ELSE d[x]]]

\* Variant of push that keys the registry by the whole path.
pushByPath(d, p) ==
  IF p \in DOMAIN d THEN [err |-> DupError(p, p, d[p]), d |-> d]
  ELSE [err |-> NoErr,
        d |-> [x \in DOMAIN d \cup {p} |-> IF x = p THEN p ELSE d[x]]]

push(d, p) ==
  LET b == Base(p)
  IN IF b \in DOMAIN d THEN [err |-> DupError(b, p, d[b]), d |-> d]
     ELSE [err |-> NoErr,
           d |-> [x \in DOMAIN d \cup {b} |-> IF x = b THEN p ELSE d[x]]]

Printf(o, m) == Append(o, m)

---------------------------------------------------------------------------
(* The command line and the world of one run *)

Specifiers == {"R", "...", "X"}

ArgLists == UNION {[1..n -> Specifiers] : n \in 0..MaxArgs}

Patterns ==
  { <<"*">>, <<"*",".","c">>, <<".",".","/","S","/","*">>, <<"[">> }

Excludes == { <<>>, <<"[">>, <<"[","a","]","*">> }

RelBases == { <<>>, <<".">>, <<"/","P","/","s">>, <<".",".">> }

WorkDirs == { <<"/","P">>, <<>> }

GoneSets == { {}, {"R"} }

DotFiles == <<".", "*">>

---------------------------------------------------------------------------
(* The run of main *)

VARIABLES
  args,       \* the import paths after the pattern
  pat,        \* the pattern of files to match
  stdlib,     \* -stdlib
  noDeps,     \* -no-deps
  exclude,    \* -exclude
  rel,        \* -rel
  dot,        \* -.
  faildup,    \* -fail-on-dup
  gone,       \* the packages whose metadata cannot be loaded
  wd,         \* the current directory, empty when there is none
  pc,         \* the statement main is at
  ps,         \* the packages
  roots,      \* what importArgs returned
  closed,     \* the packages as they entered the standard-library filter
  formatter,  \* the path formatter
  i,          \* the index of the package in the loop over ps
  ms,         \* the paths of the package in hand
  j,          \* the index of the path in the loop over ms
  dups,       \* the duplicate registry
  out,        \* the records written to standard output
  err         \* the error the run died of

flags == <<args, pat, stdlib, noDeps, exclude, rel, dot, faildup, gone, wd>>

vars == <<args, pat, stdlib, noDeps, exclude, rel, dot, faildup, gone, wd,
          pc, ps, roots, closed, formatter, i, ms, j, dups, out, err>>

Init ==
  /\ args \in ArgLists
  /\ pat \in Patterns
  /\ stdlib \in BOOLEAN
  /\ noDeps \in BOOLEAN
  /\ exclude \in Excludes
  /\ rel \in RelBases
  /\ dot \in BOOLEAN
  /\ faildup \in BOOLEAN
  /\ gone \in GoneSets
  /\ wd \in WorkDirs
  /\ pc = "args"
  /\ ps = <<>>
  /\ roots = <<>>
  /\ closed = <<>>
  /\ formatter = identity
  /\ i = 0
  /\ ms = <<>>
  /\ j = 0
  /\ dups = <<>>
  /\ out = <<>>
  /\ err = NoErr

\* log.Fatalln(e): the run ends there.
Fatalln(e) == pc' = "fatal" /\ err' = e

\* Where the loop over ps goes for its k-th package.
LoopAt(k) == IF k > Len(ps) THEN "done" ELSE "match"

\* select packages
ImportArgsStep ==
  /\ pc = "args"
  /\ LET r == importArgs(args, gone)
     IN /\ ps' = r.ps
        /\ roots' = r.ps
        /\ IF r.err # NoErr THEN Fatalln(r.err)
           ELSE pc' = "deps" /\ err' = err
  /\ UNCHANGED <<flags, closed, formatter, i, ms, j, dups, out>>

\* load dependencies of selected packages, unless told otherwise
ImportDepsStep ==
  /\ pc = "deps"
  /\ IF noDeps THEN ps' = ps /\ pc' = "stdlib" /\ err' = err
     ELSE LET r == importDeps(ps, gone)
          IN /\ ps' = r.ps
             /\ IF r.err # NoErr THEN Fatalln(r.err)
                ELSE pc' = "stdlib" /\ err' = err
  /\ UNCHANGED <<flags, roots, closed, formatter, i, ms, j, dups, out>>

\* filter out standard library packages, unless told otherwise
NoStdlibStep ==
  /\ pc = "stdlib"
  /\ closed' = ps
  /\ ps' = IF stdlib THEN ps ELSE NoStdlib(ps)
  /\ pc' = "formatter"
  /\ UNCHANGED <<flags, roots, formatter, i, ms, j, dups, out, err>>

\* build our path formatter; then the loop over ps begins
MkFormatterStep ==
  /\ pc = "formatter"
  /\ LET r == mkFormatter(rel, wd)
     IN /\ formatter' = r.f
        /\ IF r.err # NoErr THEN Fatalln(r.err) /\ i' = i
           ELSE i' = 1 /\ pc' = LoopAt(1) /\ err' = err
  /\ UNCHANGED <<flags, ps, roots, closed, ms, j, dups, out>>

\* find matching files
MatchStep ==
  /\ pc = "match"
  /\ LET r == match(Dir[ps[i]], pat)
     IN /\ ms' = r.paths
        /\ IF r.err # NoErr THEN Fatalln(r.err)
           ELSE pc' = "dot" /\ err' = err
  /\ UNCHANGED <<flags, ps, roots, closed, formatter, i, j, dups, out>>

\* unless told otherwise, filter out dot files
FilterDotStep ==
  /\ pc = "dot"
  /\ IF dot THEN ms' = ms /\ pc' = "exclude" /\ err' = err
     ELSE LET r == filter(ms, DotFiles)
          IN /\ ms' = r.paths
             /\ IF r.err # NoErr THEN Fatalln(r.err)
                ELSE pc' = "exclude" /\ err' = err
  /\ UNCHANGED <<flags, ps, roots, closed, formatter, i, j, dups, out>>

\* Variant of the exclusion step that logs the error and goes on.
FilterExcludeStepGoesOn ==
  /\ pc = "exclude"
  /\ LET r == filter(ms, exclude)
     IN ms' = r.paths /\ err' = r.err /\ pc' = "format"
  /\ UNCHANGED <<flags, ps, roots, closed, formatter, i, j, dups, out>>

\* filter out any exclusions
FilterExcludeStep ==
  /\ pc = "exclude"
  /\ LET r == filter(ms, exclude)
     IN /\ ms' = r.paths
        /\ IF r.err # NoErr THEN Fatalln(r.err)
           ELSE pc' = "format" /\ err' = err
  /\ UNCHANGED <<flags, ps, roots, closed, formatter, i, j, dups, out>>

\* format paths; then the loop over ms begins, and with no path the loop over
\* ps goes on
FormatStep ==
  /\ pc = "format"
  /\ LET r == format(ms, formatter)
     IN /\ ms' = r.paths
        /\ IF r.err # NoErr THEN Fatalln(r.err) /\ i' = i /\ j' = j
           ELSE IF r.paths = <<>>
             THEN i' = i + 1 /\ j' = j /\ pc' = LoopAt(i + 1) /\ err' = err
           ELSE i' = i /\ j' = 1 /\ pc' = "push" /\ err' = err
  /\ UNCHANGED <<flags, ps, roots, closed, formatter, dups, out>>

\* Variant of the duplicate check that runs whatever -fail-on-dup says.
PushStepAlways ==
  /\ pc = "push"
  /\ LET r == push(dups, ms[j])
     IN /\ dups' = r.d
        /\ IF r.err # NoErr THEN Fatalln(r.err)
           ELSE pc' = "print" /\ err' = err
  /\ UNCHANGED <<flags, ps, roots, closed, formatter, i, ms, j, out>>

\* error if duplicate and we're checking for them
PushStep ==
  /\ pc = "push"
  /\ IF faildup
       THEN LET r == push(dups, ms[j])
            IN /\ dups' = r.d
               /\ IF r.err # NoErr THEN Fatalln(r.err)
                  ELSE pc' = "print" /\ err' = err
     ELSE dups' = dups /\ pc' = "print" /\ err' = err
  /\ UNCHANGED <<flags, ps, roots, closed, formatter, i, ms, j, out>>

\* print the formatted file; then the next path, or the next package
PrintStep ==
  /\ pc = "print"
  /\ out' = Printf(out, ms[j])
  /\ IF j < Len(ms) THEN i' = i /\ j' = j + 1 /\ pc' = "push"
     ELSE i' = i + 1 /\ j' = j /\ pc' = LoopAt(i + 1)
  /\ UNCHANGED <<flags, ps, roots, closed, formatter, ms, dups, err>>

Next ==
  \/ ImportArgsStep
  \/ ImportDepsStep
  \/ NoStdlibStep
  \/ MkFormatterStep
  \/ MatchStep
  \/ FilterDotStep
  \/ FilterExcludeStep
  \/ FormatStep
  \/ PushStep
  \/ PrintStep

Spec == Init /\ [][Next]_vars

---------------------------------------------------------------------------
(* Properties *)

BaseNames(records) == {Base(records[k]) : k \in 1..Len(records)}

Parent(path) == cleanGlobPath(SplitDir(path))

\* The candidates of the package in hand, as the matcher returns them.
Candidates == match(Dir[ps[i]], pat).paths

\* A base name that an exclusion stage of this run removes.
Excluded(b) ==
  \/ ~dot /\ Match(DotFiles, b).matched
  \/ exclude # <<>> /\ Match(exclude, b).matched

Survivors(paths) == SelectSeq(paths, LAMBDA path : ~Excluded(Base(path)))

\* What one package contributes to the output when every stage succeeds.
Contribution(p) ==
  LET matched  == match(Dir[p], pat).paths
      undotted == IF dot THEN matched ELSE filter(matched, DotFiles).paths
      kept     == filter(undotted, exclude).paths
  IN format(kept, formatter).paths

\* The packages reachable from a set of packages over the import edges.
RECURSIVE Reach(_)
Reach(S) ==
  LET T == S \cup UNION {Range(Imports[p]) : p \in S}
  IN IF T = S THEN S ELSE Reach(T)

Distinct(s) == \A k, l \in 1..Len(s) : k # l => s[k] # s[l]

\* C1: with -fail-on-dup, the first path whose base name is that of a record
\* already emitted ends the run with a duplicate error carrying the base name,
\* the new path and the earlier path; it is not emitted and the registry is
\* as it was; a path with a new base name goes on to be printed.
C1_DuplicateFails ==
  [][(pc = "push" /\ faildup) =>
       LET m    == ms[j]
           hits == {k \in 1..Len(out) : Base(out[k]) = Base(m)}
       IN IF hits # {}
            THEN /\ pc' = "fatal"
                 /\ \E k \in hits : err' = DupError(Base(m), m, out[k])
                 /\ out' = out
                 /\ dups' = dups
          ELSE pc' = "print" /\ err' = NoErr]_vars

\* A run that died of a duplicate found in two different places, after
\* emitting at least two records.
C1_Witness ==
  pc = "fatal" /\ err.kind = "dup" /\ err.p # err.o /\ Len(out) >= 2

\* C2: without -fail-on-dup the registry stays empty, and a run that ends
\* without failure has written the contributions of the packages one after
\* the other in the order of the package set; for P importing Q and the
\* pattern *.c that is /P/a.c, /Q/a.c, /Q/b.c.
C2_OutputIsConcatenation ==
  ~faildup =>
    /\ dups = <<>>
    /\ pc = "done" => out = Flat([k \in 1..Len(ps) |-> Contribution(ps[k])])
    /\ ( /\ pc = "done" /\ args = <<>> /\ pat = <<"*",".","c">>
         /\ ~dot /\ ~stdlib /\ ~noDeps /\ exclude = <<>> /\ rel = <<>> )
       => out = << <<"/","P","/","a",".","c">>,
                   <<"/","Q","/","a",".","c">>,
                   <<"/","Q","/","b",".","c">> >>

\* A finished run without -fail-on-dup that emitted two different paths of one
\* base name.
C2_Witness ==
  /\ ~faildup
  /\ pc = "done"
  /\ \E k, l \in 1..Len(out) :
       k < l /\ Base(out[k]) = Base(out[l]) /\ out[k] # out[l]

\* C3: when no dependency lookup fails, importDeps returns exactly the
\* packages it was given and those reachable from them over the import
\* edges; when a lookup fails it returns the error and no package set.
C3_Closure ==
  LET all == Reach(Range(roots))
  IN /\ (pc = "stdlib" /\ ~noDeps) => (Range(ps) = all /\ all \cap gone = {})
     /\ ( /\ ~noDeps
          /\ pc \notin {"args", "deps"}
          /\ err.kind # "resolution"
          /\ all \cap gone # {} )
        => (pc = "fatal" /\ err.kind = "closure" /\ ps = <<>>)
     /\ err.kind = "closure" => (all \cap gone # {} /\ ps = <<>>)

\* The expander has returned, and has added to the root P a package that P
\* does not import itself.
C3_Witness ==
  pc = "stdlib" /\ ~noDeps /\ roots = <<"P">> /\ "R" \in Range(ps)

\* C4: from the resolver on, the package set never holds an import path
\* twice, whatever the arguments and whether or not the dependencies are
\* loaded; with -no-deps the set that reaches the standard-library filter is
\* the resolver's output.
C4_UniqueImportPaths ==
  /\ pc # "args" => Distinct(ps)
  /\ (pc = "stdlib" /\ noDeps) => ps = importArgs(args, gone).ps

\* The loop over the packages has begun, for an argument given together with
\* a wildcard that covers it.
C4_Witness ==
  pc = "match" /\ args = <<"R", "...">> /\ ~noDeps /\ Len(ps) >= 3

\* C5, as claimed: the survivors of the filter chain are the candidates, in
\* order, whose base name matches no active exclusion, and no emitted record
\* has a base name matching an active exclusion.
C5_NoExcludedRecord ==
  /\ pc = "format" => ms = Survivors(Candidates)
  /\ \A k \in 1..Len(out) : ~Excluded(Base(out[k]))

\* C5, amended: the survivors of the filter chain are the candidates, in
\* order, whose base name matches no active exclusion, and no emitted record
\* has a base name matching an active exclusion unless that base name is "."
\* or "..", which the formatter makes of a candidate that is the relative base
\* or lies above it.
C5_NoExcludedRecordButDots ==
  /\ pc = "format" => ms = Survivors(Candidates)
  /\ \A k \in 1..Len(out) :
       Base(out[k]) \notin {Dot, DotDot} => ~Excluded(Base(out[k]))

\* Both exclusion stages have removed a candidate and left one.
C5_Witness ==
  /\ pc = "format"
  /\ ~dot
  /\ exclude # <<>>
  /\ Len(ms) >= 1
  /\ Len(Candidates) = Len(ms) + 2

\* C6: with a malformed exclusion glob the exclusion stage fails, so it is
\* never passed and the run never ends in success, whatever the candidates.
C6_InvalidExcludeAborts ==
  pc \in {"format", "done"} => WellFormed(exclude)

\* C7: no step is taken after a failure; a step that fails ends the run and
\* emits nothing; every step leaves the records already emitted as they are
\* and adds at most one.
C7_FailFastAppendOnly ==
  [][/\ pc # "fatal"
     /\ err = NoErr
     /\ IsPrefix(out, out')
     /\ Len(out') <= Len(out) + 1
     /\ (err' # NoErr) = (pc' = "fatal")
     /\ err' # NoErr => out' = out]_vars

\* A run aborted after it emitted records.
C7_Witness ==
  pc = "fatal" /\ Len(out) >= 1

\* C8: without -stdlib the package set after the filter is the packages of
\* the set before it that are not of the standard library, and no record is
\* emitted from the directory of a standard-library package; with -stdlib the
\* set is unchanged.
C8_NoStdlibRecords ==
  /\ (pc \notin {"args", "deps", "stdlib"} /\ err.kind \notin {"resolution", "closure"})
     => IF stdlib THEN ps = closed
        ELSE /\ Range(ps) \subseteq Range(closed)
             /\ Range(ps) = {p \in Range(closed) : ~Goroot[p]}
  /\ (~stdlib /\ rel = <<>>)
     => \A k \in 1..Len(out) : \A p \in ImportPaths :
          Goroot[p] => Parent(out[k]) # Dir[p]

\* C9: the matcher returns only entries directly inside the directory whose
\* name matches the pattern, and nothing for a directory that does not exist.
C9_OnlyDirectEntries ==
  pc = "dot" =>
    /\ \A k \in 1..Len(ms) :
         /\ Parent(ms[k]) = Dir[ps[i]]
         /\ Match(pat, SplitFile(ms[k])).matched
    /\ Dir[ps[i]] \notin Directories => ms = <<>>

\* C10: with -fail-on-dup the emitted records have pairwise distinct base
\* names, and the registry maps the base name of every emitted record to that
\* record and holds nothing else but the record about to be printed; an entry
\* is never removed and never changed.
C10_RegistryMirrorsOutput ==
  /\ [](faildup =>
          LET pending == IF pc = "print" THEN {ms[j]} ELSE {}
          IN /\ \A k, l \in 1..Len(out) : k # l => Base(out[k]) # Base(out[l])
             /\ DOMAIN dups = BaseNames(out) \cup {Base(m) : m \in pending}
             /\ \A m \in Range(out) \cup pending : dups[Base(m)] = m)
  /\ [][\A b \in DOMAIN dups : b \in DOMAIN dups' /\ dups'[b] = dups[b]]_vars

\* Two records are out, a third is registered and about to be printed.
C10_Witness ==
  faildup /\ pc = "print" /\ Len(out) >= 2

=============================================================================
